---- MODULE Spec2Model ----
(***************************************************************************)
(* Document model of the FOMOD designer (src/src/nodes.py): the node-type  *)
(* registry, the tree mutation engine (can_add_child, add_child,           *)
(* remove_child, set_hidden), the sort engine and the metadata codec       *)
(* (load_metadata, save_metadata) with its comment-delimiter escaping.     *)
(*                                                                         *)
(* Strings are sequences of symbols.  A symbol is either the code of one   *)
(* character (32 ' ', 33 '!', 45 '-', 46 '.', 48.. digits, 60 '<', 62 '>', *)
(* 97 'a') or a number above 255 that stands for one fixed literal which   *)
(* contains none of these characters in a position where it could take     *)
(* part in a match of the substitutions (a start tag, an end tag, an       *)
(* entity, the sentinel, a piece of JSON punctuation, a display name).     *)
(***************************************************************************)
EXTENDS Integers, Sequences, FiniteSets, TLC

(***************************************************************************)
(* Bounds of the model.                                                    *)
(***************************************************************************)
MaxNodes == 6
MaxHidden == 2
MaxCalls == 3
MaxKids == 2
MaxStrLen == 4

(***************************************************************************)
(* Schema registry: one entry per node class of nodes.py.                  *)
(***************************************************************************)
TypeSeq ==
    <<"NodeInfoRoot", "NodeInfoName", "NodeInfoAuthor", "NodeInfoVersion",
      "NodeInfoID", "NodeInfoWebsite", "NodeInfoDescription",
      "NodeInfoGroup", "NodeInfoElement", "NodeConfigRoot",
      "NodeConfigModName", "NodeConfigModImage", "NodeConfigModDepend",
      "NodeConfigReqFiles", "NodeConfigInstallSteps",
      "NodeConfigCondInstall", "NodeConfigDependFile",
      "NodeConfigDependFlag", "NodeConfigDependGame", "NodeConfigFile",
      "NodeConfigFolder", "NodeConfigPatterns", "NodeConfigPattern",
      "NodeConfigFiles", "NodeConfigDependencies",
      "NodeConfigNestedDependencies", "NodeConfigInstallStep",
      "NodeConfigVisible", "NodeConfigOptGroups", "NodeConfigGroup",
      "NodeConfigPlugins", "NodeConfigPlugin", "NodeConfigPluginDescription",
      "NodeConfigImage", "NodeConfigConditionFlags", "NodeConfigTypeDesc",
      "NodeConfigFlag", "NodeConfigDependencyType", "NodeConfigDefaultType",
      "NodeConfigType", "NodeConfigInstallPatterns",
      "NodeConfigInstallPattern">>

allowed_instances(t) ==
    IF t \in {"NodeComment", "NodeInfoElement", "NodeConfigDependFile",
              "NodeConfigDependFlag", "NodeConfigFile", "NodeConfigFolder",
              "NodeConfigPattern", "NodeConfigNestedDependencies",
              "NodeConfigInstallStep", "NodeConfigGroup", "NodeConfigPlugin",
              "NodeConfigFlag", "NodeConfigInstallPattern"}
    THEN 0 ELSE 1

sort_order(t) ==
    CASE t \in {"NodeConfigModName", "NodeConfigDependencies",
                "NodeConfigVisible", "NodeConfigPluginDescription",
                "NodeConfigDefaultType"}
        -> <<49>>
      [] t \in {"NodeConfigModImage", "NodeConfigOptGroups",
                "NodeConfigImage", "NodeConfigType",
                "NodeConfigInstallPatterns"}
        -> <<50>>
      [] t \in {"NodeConfigModDepend", "NodeConfigFiles",
                "NodeConfigConditionFlags"}
        -> <<51>>
      [] t \in {"NodeConfigReqFiles", "NodeConfigTypeDesc"}
        -> <<52>>
      [] t \in {"NodeConfigInstallSteps"}
        -> <<53>>
      [] t \in {"NodeConfigCondInstall"}
        -> <<54>>
      [] OTHER -> <<48>>

allowed_children(t) ==
    CASE t = "NodeInfoRoot" ->
        {"NodeInfoName", "NodeInfoAuthor", "NodeInfoDescription",
         "NodeInfoID", "NodeInfoGroup", "NodeInfoVersion", "NodeInfoWebsite"}
      [] t = "NodeInfoGroup" ->
        {"NodeInfoElement"}
      [] t = "NodeConfigRoot" ->
        {"NodeConfigModName", "NodeConfigModImage", "NodeConfigModDepend",
         "NodeConfigInstallSteps", "NodeConfigReqFiles",
         "NodeConfigCondInstall"}
      [] t = "NodeConfigModDepend" ->
        {"NodeConfigDependFile", "NodeConfigDependFlag",
         "NodeConfigDependGame", "NodeConfigNestedDependencies"}
      [] t = "NodeConfigReqFiles" ->
        {"NodeConfigFile", "NodeConfigFolder"}
      [] t = "NodeConfigInstallSteps" ->
        {"NodeConfigInstallStep"}
      [] t = "NodeConfigCondInstall" ->
        {"NodeConfigPatterns"}
      [] t = "NodeConfigPatterns" ->
        {"NodeConfigPattern"}
      [] t = "NodeConfigPattern" ->
        {"NodeConfigFiles", "NodeConfigDependencies"}
      [] t = "NodeConfigFiles" ->
        {"NodeConfigFile", "NodeConfigFolder"}
      [] t = "NodeConfigDependencies" ->
        {"NodeConfigDependFile", "NodeConfigDependFlag",
         "NodeConfigDependGame", "NodeConfigNestedDependencies"}
      [] t = "NodeConfigNestedDependencies" ->
        {"NodeConfigDependFile", "NodeConfigDependFlag",
         "NodeConfigDependGame", "NodeConfigNestedDependencies"}
      [] t = "NodeConfigInstallStep" ->
        {"NodeConfigVisible", "NodeConfigOptGroups"}
      [] t = "NodeConfigVisible" ->
        {"NodeConfigDependFile", "NodeConfigDependFlag",
         "NodeConfigDependGame", "NodeConfigNestedDependencies"}
      [] t = "NodeConfigOptGroups" ->
        {"NodeConfigGroup"}
      [] t = "NodeConfigGroup" ->
        {"NodeConfigPlugins"}
      [] t = "NodeConfigPlugins" ->
        {"NodeConfigPlugin"}
      [] t = "NodeConfigPlugin" ->
        {"NodeConfigPluginDescription", "NodeConfigImage", "NodeConfigFiles",
         "NodeConfigConditionFlags", "NodeConfigTypeDesc"}
      [] t = "NodeConfigConditionFlags" ->
        {"NodeConfigFlag"}
      [] t = "NodeConfigTypeDesc" ->
        {"NodeConfigDependencyType", "NodeConfigType"}
      [] t = "NodeConfigDependencyType" ->
        {"NodeConfigInstallPatterns", "NodeConfigDefaultType"}
      [] t = "NodeConfigInstallPatterns" ->
        {"NodeConfigInstallPattern"}
      [] t = "NodeConfigInstallPattern" ->
        {"NodeConfigType", "NodeConfigDependencies"}
      [] OTHER -> {}

has_node_text(t) ==
    t \in {"NodeInfoName", "NodeInfoAuthor", "NodeInfoVersion",
            "NodeInfoID", "NodeInfoWebsite", "NodeInfoDescription",
            "NodeInfoElement", "NodeConfigModName",
            "NodeConfigPluginDescription", "NodeConfigFlag"}

has_name_property(t) ==
    t \in {"NodeConfigFile", "NodeConfigFolder", "NodeConfigInstallStep",
            "NodeConfigGroup", "NodeConfigPlugin", "NodeConfigFlag",
            "NodeConfigDefaultType", "NodeConfigType"}

has_properties(t) ==
    t \in {"NodeInfoName", "NodeInfoAuthor", "NodeInfoVersion",
            "NodeInfoID", "NodeInfoWebsite", "NodeInfoDescription",
            "NodeInfoElement", "NodeConfigRoot", "NodeConfigModName",
            "NodeConfigModImage", "NodeConfigModDepend",
            "NodeConfigInstallSteps", "NodeConfigDependFile",
            "NodeConfigDependFlag", "NodeConfigDependGame", "NodeConfigFile",
            "NodeConfigFolder", "NodeConfigDependencies",
            "NodeConfigNestedDependencies", "NodeConfigInstallStep",
            "NodeConfigVisible", "NodeConfigOptGroups", "NodeConfigGroup",
            "NodeConfigPlugins", "NodeConfigPlugin",
            "NodeConfigPluginDescription", "NodeConfigImage",
            "NodeConfigFlag", "NodeConfigDefaultType", "NodeConfigType"}

(***************************************************************************)
(* Symbols and string functions.                                           *)
(***************************************************************************)
TypeIdx(t) == CHOOSE i \in 1..Len(TypeSeq) : TypeSeq[i] = t

ElementTypes == {TypeSeq[i] : i \in 1..Len(TypeSeq)}

SENTINEL == 300
LT_ENT == 301
GT_ENT == 302
OBJ_OPEN == 310
OBJ_CLOSE == 311
KEY_NAME == 312
KEY_USER_SORT == 313
KEY_HIDDEN_NODES == 314
ARR_OPEN == 315
ARR_CLOSE == 316
QUOTE == 400
OPEN_BASE == 1000
CLOSE_BASE == 2000
NAME_BASE == 3000

OpenTag(t) == OPEN_BASE + TypeIdx(t)
CloseTag(t) == CLOSE_BASE + TypeIdx(t)
IsOpenTag(x) == x > OPEN_BASE /\ x <= OPEN_BASE + Len(TypeSeq)
IsCloseTag(x) == x > CLOSE_BASE /\ x <= CLOSE_BASE + Len(TypeSeq)

\* the display name given to init() by each class, as one literal
name(t) == IF t = "NodeComment" THEN <<NAME_BASE>> ELSE <<NAME_BASE + TypeIdx(t)>>

COMMENT_OPEN == <<60, 33, 45, 45>>
COMMENT_CLOSE == <<45, 45, 62>>
DOUBLE_HYPHEN == <<45, 45>>
OPEN_PLACEHOLDER == <<60, 33, 45, 32, 45>>
CLOSE_PLACEHOLDER == <<45, 32, 45, 62>>
ZERO_RANK == <<48, 48, 48, 48, 48, 48, 48>>

StartsWithAt(s, p, i) ==
    /\ i + Len(p) - 1 <= Len(s)
    /\ \A k \in 1..Len(p) : s[i + k - 1] = p[k]

startswith(s, p) == StartsWithAt(s, p, 1)

Contains(s, p) == \E i \in 1..Len(s) : StartsWithAt(s, p, i)

\* str.replace: the occurrences are found left to right and do not overlap
RECURSIVE replace_from(_, _, _, _)
replace_from(s, old, new, i) ==
    IF i > Len(s) THEN <<>>
    ELSE IF StartsWithAt(s, old, i)
         THEN new \o replace_from(s, old, new, i + Len(old))
         ELSE <<s[i]>> \o replace_from(s, old, new, i + 1)

replace(s, old, new) == replace_from(s, old, new, 1)

\* save_metadata, line 264
escape_snapshot(s) ==
    replace(replace(s, COMMENT_OPEN, OPEN_PLACEHOLDER),
            COMMENT_CLOSE, CLOSE_PLACEHOLDER)

\* load_metadata, line 238
unescape_snapshot(s) ==
    replace(replace(s, OPEN_PLACEHOLDER, COMMENT_OPEN),
            CLOSE_PLACEHOLDER, COMMENT_CLOSE)

\* lexicographic order of two strings (Python's < on str)
RECURSIVE StrLess(_, _)
StrLess(a, b) ==
    IF Len(b) = 0 THEN FALSE
    ELSE IF Len(a) = 0 THEN TRUE
    ELSE IF a[1] < b[1] THEN TRUE
    ELSE IF a[1] > b[1] THEN FALSE
    ELSE StrLess(Tail(a), Tail(b))

\* str.zfill for unsigned strings
RECURSIVE zfill(_, _)
zfill(s, width) == IF Len(s) >= width THEN s ELSE zfill(<<48>> \o s, width)

RECURSIVE Concat(_)
Concat(ss) == IF Len(ss) = 0 THEN <<>> ELSE Head(ss) \o Concat(Tail(ss))

\* the serializer writes < and > of text and attribute values as entities
xml_escape(s) ==
    [i \in 1..Len(s) |-> IF s[i] = 60 THEN LT_ENT
                         ELSE IF s[i] = 62 THEN GT_ENT ELSE s[i]]

xml_unescape(s) ==
    [i \in 1..Len(s) |-> IF s[i] = LT_ENT THEN 60
                         ELSE IF s[i] = GT_ENT THEN 62 ELSE s[i]]

(***************************************************************************)
(* etree.tostring and etree.fromstring on tree values                      *)
(* [type, text, kids]; a comment is a tree value of type "NodeComment".    *)
(***************************************************************************)
RECURSIVE tostring(_)
tostring(tv) ==
    IF tv.type = "NodeComment"
    THEN COMMENT_OPEN \o tv.text \o COMMENT_CLOSE
    ELSE <<OpenTag(tv.type)>> \o xml_escape(tv.text)
         \o Concat([i \in 1..Len(tv.kids) |-> tostring(tv.kids[i])])
         \o <<CloseTag(tv.type)>>

ParseFail == [ok |-> FALSE, node |-> <<>>, kids |-> <<>>, next |-> 0]

\* first position >= i of s that holds no character data of an element
RECURSIVE CharDataEnd(_, _)
CharDataEnd(s, i) ==
    IF i > Len(s) \/ s[i] = 60 \/ IsOpenTag(s[i]) \/ IsCloseTag(s[i])
    THEN i ELSE CharDataEnd(s, i + 1)

\* first position >= i of s where "--" starts, 0 when there is none
RECURSIVE FindHyphens(_, _)
FindHyphens(s, i) ==
    IF i + 1 > Len(s) THEN 0
    ELSE IF s[i] = 45 /\ s[i + 1] = 45 THEN i ELSE FindHyphens(s, i + 1)

RECURSIVE ParseElement(_, _), ParseChildren(_, _, _)
ParseElement(s, i) ==
    IF i > Len(s) \/ ~IsOpenTag(s[i]) THEN ParseFail
    ELSE LET t == TypeSeq[s[i] - OPEN_BASE]
             j == CharDataEnd(s, i + 1)
             r == ParseChildren(s, j, <<>>)
         IN  IF ~r.ok \/ r.next > Len(s) THEN ParseFail
             ELSE IF s[r.next] # CloseTag(t) THEN ParseFail
             ELSE [ok |-> TRUE,
                   node |-> [type |-> t,
                             text |-> xml_unescape(SubSeq(s, i + 1, j - 1)),
                             kids |-> r.kids],
                   kids |-> <<>>,
                   next |-> r.next + 1]

ParseChildren(s, i, acc) ==
    IF i > Len(s) THEN [ok |-> TRUE, node |-> <<>>, kids |-> acc, next |-> i]
    ELSE IF IsCloseTag(s[i])
         THEN [ok |-> TRUE, node |-> <<>>, kids |-> acc, next |-> i]
    ELSE IF IsOpenTag(s[i])
         THEN LET e == ParseElement(s, i)
              IN  IF e.ok THEN ParseChildren(s, e.next, Append(acc, e.node))
                  ELSE ParseFail
    ELSE IF StartsWithAt(s, COMMENT_OPEN, i)
         THEN LET k == FindHyphens(s, i + 4)
              IN  IF k = 0 \/ k + 2 > Len(s) THEN ParseFail
                  ELSE IF s[k + 2] # 62 THEN ParseFail
                  ELSE ParseChildren(s, k + 3,
                           Append(acc, [type |-> "NodeComment",
                                        text |-> SubSeq(s, i + 4, k - 1),
                                        kids |-> <<>>]))
    ELSE IF s[i] = 60 THEN ParseFail
    ELSE ParseChildren(s, CharDataEnd(s, i), acc)

\* the whole string must be one element
fromstring(s) ==
    LET e == ParseElement(s, 1)
    IN  IF e.ok /\ e.next = Len(s) + 1 THEN e ELSE ParseFail

(***************************************************************************)
(* State.  Nodes are numbered 1..MaxNodes; a slot of type "none" holds no  *)
(* node.  The first group is the fields of the node objects, then the      *)
(* document root, the detached node the caller holds, the number of calls  *)
(* made, the exception that ended the last call, a record of the last      *)
(* call, the (parent type, child type) pairs of the children remove_child  *)
(* has detached so far, the variables of the escaping pipeline, and the    *)
(* file of the package: whether it was written and read back, what the     *)
(* tree looked like when it was written, and its text.                     *)
(***************************************************************************)
VARIABLES type, parent, children, hidden_children, is_hidden, metadata,
          label, user_sort_order, text, prop,
          root, cand, calls, err, last, removed,
          esc_pc, esc_src, esc_in, esc_out, esc_back, trip

nodevars == <<type, parent, children, hidden_children, is_hidden, metadata,
              label, user_sort_order, text, prop>>
escvars == <<esc_pc, esc_src, esc_in, esc_out, esc_back>>
vars == <<nodevars, root, cand, calls, err, last, removed, escvars, trip>>

Ids == 1..MaxNodes

EmptyMeta == [keys |-> <<>>, name |-> <<>>, user_sort |-> <<>>,
              hidden_nodes |-> <<>>]

Has(m, k) == \E i \in 1..Len(m.keys) : m.keys[i] = k
Put(m, k, v) ==
    [m EXCEPT !.keys = IF Has(m, k) THEN @ ELSE Append(@, k), ![k] = v]
Pop(m, k) ==
    [m EXCEPT !.keys = SelectSeq(@, LAMBDA x : x # k), ![k] = <<>>]

\* the node objects as one value
W == [type |-> type, parent |-> parent, children |-> children,
      hidden_children |-> hidden_children, is_hidden |-> is_hidden,
      metadata |-> metadata, label |-> label,
      user_sort_order |-> user_sort_order, text |-> text, prop |-> prop,
      err |-> err]

BlankWorld ==
    [type |-> [i \in Ids |-> "none"], parent |-> [i \in Ids |-> 0],
     children |-> [i \in Ids |-> <<>>],
     hidden_children |-> [i \in Ids |-> <<>>],
     is_hidden |-> [i \in Ids |-> FALSE],
     metadata |-> [i \in Ids |-> EmptyMeta],
     label |-> [i \in Ids |-> <<>>],
     user_sort_order |-> [i \in Ids |-> <<>>],
     text |-> [i \in Ids |-> <<>>], prop |-> [i \in Ids |-> <<>>],
     err |-> "none"]

Raise(w, e) == [w EXCEPT !.err = e]

InSeq(x, s) == \E i \in 1..Len(s) : s[i] = x

RemoveFirst(s, x) ==
    IF ~InSeq(x, s) THEN s
    ELSE LET i == CHOOSE k \in 1..Len(s) :
                      s[k] = x /\ \A j \in 1..(k - 1) : s[j] # x
         IN  SubSeq(s, 1, i - 1) \o SubSeq(s, i + 1, Len(s))

IsElement(w, n) == w.type[n] \in ElementTypes
IsComment(w, n) == w.type[n] = "NodeComment"

\* lowest free slot, 0 when all are taken
Alloc(w) ==
    IF \A i \in Ids : w.type[i] # "none" THEN 0
    ELSE CHOOSE i \in Ids :
             w.type[i] = "none" /\ \A j \in 1..(i - 1) : w.type[j] # "none"

\* _NodeElement.init and NodeComment._init: the fields of a new object
construct(w, n, t, v) ==
    [w EXCEPT !.type[n] = t, !.parent[n] = 0, !.children[n] = <<>>,
              !.hidden_children[n] = <<>>, !.is_hidden[n] = FALSE,
              !.metadata[n] = EmptyMeta, !.label[n] = name(t),
              !.user_sort_order[n] = ZERO_RANK, !.text[n] = <<>>,
              !.prop[n] = v]

RECURSIVE RootOf(_, _)
RootOf(w, n) == IF w.parent[n] = 0 THEN n ELSE RootOf(w, w.parent[n])

\* the nodes of the subtree of n, n included
RECURSIVE Subtree(_, _)
Subtree(w, n) ==
    {n} \cup UNION {Subtree(w, w.children[n][i]) :
                        i \in 1..Len(w.children[n])}

\* the subtree of n as a tree value
RECURSIVE TreeOf(_, _)
TreeOf(w, n) ==
    [type |-> w.type[n], text |-> w.text[n],
     kids |-> [i \in 1..Len(w.children[n]) |-> TreeOf(w, w.children[n][i])]]

(***************************************************************************)
(* Tree mutation engine.                                                   *)
(***************************************************************************)
\* the instances counted among the visible children only
Instances_visible(w, p, t) ==
    Cardinality({i \in 1..Len(w.children[p]) :
                     /\ w.type[w.children[p][i]] = t
                     /\ ~w.is_hidden[w.children[p][i]]})

Instances(w, p, t) ==
    Cardinality({i \in 1..Len(w.children[p]) :
                     w.type[w.children[p][i]] = t})

\* a check that returns early for a child type without a maximum
NodeElement_can_add_child_early_return(w, p, c) ==
    IF allowed_instances(w.type[c]) = 0 THEN TRUE
    ELSE IF Instances(w, p, w.type[c]) >= allowed_instances(w.type[c])
         THEN FALSE
         ELSE \/ w.type[c] \in allowed_children(w.type[p])
              \/ w.type[c] = "NodeComment"

\* a cardinality check that is off by one
NodeElement_can_add_child_off_by_one(w, p, c) ==
    IF /\ allowed_instances(w.type[c]) # 0
       /\ Instances(w, p, w.type[c]) > allowed_instances(w.type[c])
    THEN FALSE
    ELSE \/ w.type[c] \in allowed_children(w.type[p])
         \/ w.type[c] = "NodeComment"

\* _NodeElement.can_add_child
NodeElement_can_add_child(w, p, c) ==
    IF /\ allowed_instances(w.type[c]) # 0
       /\ Instances(w, p, w.type[c]) >= allowed_instances(w.type[c])
    THEN FALSE
    ELSE \/ w.type[c] \in allowed_children(w.type[p])
         \/ w.type[c] = "NodeComment"

\* NodeConfigTypeDesc.can_add_child
NodeConfigTypeDesc_can_add_child(w, p, c) ==
    NodeElement_can_add_child(w, p, c) /\ Len(w.children[p]) < 1

can_add_child(w, p, c) ==
    IF w.type[p] = "NodeConfigTypeDesc"
    THEN NodeConfigTypeDesc_can_add_child(w, p, c)
    ELSE NodeElement_can_add_child(w, p, c)

\* lxml append: the node leaves its former parent, if any
append(w, p, c) ==
    LET q == w.parent[c]
        w1 == IF q = 0 THEN w
              ELSE [w EXCEPT !.children[q] = RemoveFirst(@, c)]
    IN  [w1 EXCEPT !.children[p] = Append(@, c), !.parent[c] = p]

\* update_item_name: the text it returns
update_item_name(w, n) ==
    IF has_name_property(w.type[n]) /\ w.prop[n] # <<>>
    THEN w.prop[n] ELSE name(w.type[n])

(***************************************************************************)
(* Sort engine.                                                            *)
(***************************************************************************)
sort_key(w, x) == sort_order(w.type[x]) \o <<46>> \o w.user_sort_order[x]

\* an unstable sort: x goes before the elements whose key is equal
RECURSIVE InsertSorted_unstable(_, _, _)
InsertSorted_unstable(w, x, s) ==
    IF Len(s) = 0 THEN <<x>>
    ELSE IF ~StrLess(sort_key(w, Head(s)), sort_key(w, x))
         THEN <<x>> \o s
         ELSE <<Head(s)>> \o InsertSorted_unstable(w, x, Tail(s))

\* sorted() is stable: x goes behind every element whose key is not larger
RECURSIVE InsertSorted(_, _, _)
InsertSorted(w, x, s) ==
    IF Len(s) = 0 THEN <<x>>
    ELSE IF StrLess(sort_key(w, x), sort_key(w, Head(s)))
         THEN <<x>> \o s
         ELSE <<Head(s)>> \o InsertSorted(w, x, Tail(s))

RECURSIVE sorted_from(_, _, _, _)
sorted_from(w, s, i, acc) ==
    IF i > Len(s) THEN acc
    ELSE sorted_from(w, s, i + 1, InsertSorted(w, s[i], acc))

sorted(w, s) == sorted_from(w, s, 1, <<>>)

\* a sort of the children of n only
xpath_parents_self(w, n) ==
    {x \in {n} :
        /\ IsElement(w, x)
        /\ \E i \in 1..Len(w.children[x]) : IsElement(w, w.children[x][i])}

\* the elements the path //*[./*] selects: every element of the document
\* of n that has an element child
xpath_parents(w, n) ==
    {x \in Subtree(w, RootOf(w, n)) :
        /\ IsElement(w, x)
        /\ \E i \in 1..Len(w.children[x]) : IsElement(w, w.children[x][i])}

\* _NodeElement.sort and NodeComment.sort
sort(w, n) ==
    IF w.err # "none" \/ IsComment(w, n) THEN w
    ELSE [w EXCEPT !.children =
              [x \in Ids |-> IF x \in xpath_parents(w, n)
                             THEN sorted(w, w.children[x])
                             ELSE w.children[x]]]

(***************************************************************************)
(* Metadata codec: the JSON text of the mapping.  Inside a JSON string a   *)
(* quote is written escaped; QUOTE + k is a quote under k escapes.         *)
(***************************************************************************)
IsQuote(x) == x >= QUOTE /\ x < QUOTE + 100

json_escape(s) ==
    [i \in 1..Len(s) |-> IF IsQuote(s[i]) THEN s[i] + 1 ELSE s[i]]

json_unescape(s) ==
    [i \in 1..Len(s) |-> IF IsQuote(s[i]) /\ s[i] > QUOTE
                         THEN s[i] - 1 ELSE s[i]]

encode_string(s) == <<QUOTE>> \o json_escape(s) \o <<QUOTE>>

encode_entry(m, k) ==
    CASE k = "name" -> <<KEY_NAME>> \o encode_string(m.name)
      [] k = "user_sort" -> <<KEY_USER_SORT>> \o encode_string(m.user_sort)
      [] k = "hidden_nodes" ->
            <<KEY_HIDDEN_NODES, ARR_OPEN>>
            \o Concat([i \in 1..Len(m.hidden_nodes) |->
                           encode_string(m.hidden_nodes[i])])
            \o <<ARR_CLOSE>>

\* jsonpickle.encode of the metadata dict: the keys in insertion order
encode(m) ==
    <<OBJ_OPEN>>
    \o Concat([i \in 1..Len(m.keys) |-> encode_entry(m, m.keys[i])])
    \o <<OBJ_CLOSE>>

DecodeFail == [ok |-> FALSE, m |-> EmptyMeta, v |-> <<>>, next |-> 0]

RECURSIVE FindQuote(_, _)
FindQuote(s, i) ==
    IF i > Len(s) THEN 0
    ELSE IF s[i] = QUOTE THEN i ELSE FindQuote(s, i + 1)

ParseString(s, i) ==
    IF i > Len(s) THEN DecodeFail
    ELSE IF s[i] # QUOTE THEN DecodeFail
    ELSE LET k == FindQuote(s, i + 1)
         IN  IF k = 0 THEN DecodeFail
             ELSE [ok |-> TRUE, m |-> EmptyMeta,
                   v |-> json_unescape(SubSeq(s, i + 1, k - 1)),
                   next |-> k + 1]

RECURSIVE ParseStrings(_, _, _)
ParseStrings(s, i, acc) ==
    IF i > Len(s) THEN DecodeFail
    ELSE IF s[i] = ARR_CLOSE
         THEN [ok |-> TRUE, m |-> EmptyMeta, v |-> acc, next |-> i + 1]
    ELSE LET r == ParseString(s, i)
         IN  IF r.ok THEN ParseStrings(s, r.next, Append(acc, r.v))
             ELSE DecodeFail

RECURSIVE ParseEntries(_, _, _)
ParseEntries(s, i, m) ==
    IF i > Len(s) THEN DecodeFail
    ELSE IF s[i] = OBJ_CLOSE
         THEN IF i = Len(s)
              THEN [ok |-> TRUE, m |-> m, v |-> <<>>, next |-> i + 1]
              ELSE DecodeFail
    ELSE IF s[i] = KEY_NAME
         THEN LET r == ParseString(s, i + 1)
              IN  IF r.ok THEN ParseEntries(s, r.next, Put(m, "name", r.v))
                  ELSE DecodeFail
    ELSE IF s[i] = KEY_USER_SORT
         THEN LET r == ParseString(s, i + 1)
              IN  IF r.ok
                  THEN ParseEntries(s, r.next, Put(m, "user_sort", r.v))
                  ELSE DecodeFail
    ELSE IF s[i] = KEY_HIDDEN_NODES
         THEN IF i + 1 > Len(s) THEN DecodeFail
              ELSE IF s[i + 1] # ARR_OPEN THEN DecodeFail
              ELSE LET r == ParseStrings(s, i + 2, <<>>)
                   IN  IF r.ok
                       THEN ParseEntries(s, r.next,
                                         Put(m, "hidden_nodes", r.v))
                       ELSE DecodeFail
    ELSE DecodeFail

\* jsonpickle.decode of the text of a mapping; ok is false where it raises
\* JSONDecodeError
decode(s) ==
    IF Len(s) = 0 THEN DecodeFail
    ELSE IF s[1] # OBJ_OPEN THEN DecodeFail
    ELSE ParseEntries(s, 2, EmptyMeta)

\* child.text.split(maxsplit=1)[1]; ok is false where the index is missing
split_rest(s) ==
    LET ws == {i \in 1..Len(s) : s[i] = 32}
    IN  IF ws = {} THEN [ok |-> FALSE, s |-> <<>>]
        ELSE LET i == CHOOSE k \in ws : \A j \in ws : k <= j
                 nonws == {j \in i..Len(s) : s[j] # 32}
             IN  IF nonws = {} THEN [ok |-> FALSE, s |-> <<>>]
                 ELSE LET b == CHOOSE k \in nonws : \A j \in nonws : k <= j
                      IN  [ok |-> TRUE, s |-> SubSeq(s, b, Len(s))]

meta_text(m) == <<SENTINEL, 32>> \o encode(m)

is_meta_comment(w, c) ==
    IsComment(w, c) /\ startswith(w.text[c], <<SENTINEL>>)

(***************************************************************************)
(* add_child, write_attribs, set_hidden, load_metadata, save_metadata and  *)
(* copy_node call each other: a method calls another one through call,     *)
(* which dispatches on the method name.  Each returns the node objects     *)
(* after the call; a call made after an exception was raised does nothing. *)
(* A node constructed during a call takes the lowest free slot.            *)
(***************************************************************************)
RECURSIVE call(_, _, _, _)

\* io.copy_node: the node objects of a parsed snapshot, children attached
\* in document order; the copy of the snapshot's root is Alloc(w)
RECURSIVE copy_children(_, _, _, _)
copy_children(w, a, kids, i) ==
    IF w.err # "none" \/ i > Len(kids) THEN w
    ELSE copy_children(
             call("add_child", call("copy_node", w, 0, kids[i]), a, Alloc(w)),
             a, kids, i + 1)

\* the node object of one element or comment of a parsed text, no child
\* attached yet
parsed_node(w, a, tv, v) ==
    [construct(w, a, tv.type, v) EXCEPT
        !.text[a] = v,
        !.label[a] = update_item_name(construct(w, a, tv.type, v), a)]

parsed_value(tv) ==
    IF has_properties(tv.type) \/ tv.type = "NodeComment"
    THEN tv.text ELSE <<>>

copy_node(w, tv) ==
    IF w.err # "none" THEN w
    ELSE IF Alloc(w) = 0 THEN Raise(w, "bound")
    ELSE copy_children(parsed_node(w, Alloc(w), tv, parsed_value(tv)),
                       Alloc(w), tv.kids, 1)

\* add_child without the check
add_child_unchecked(w, p, c) ==
    IF w.err # "none" THEN w
    ELSE call("load_metadata",
              call("write_attribs", append(w, p, c), c, 0), c, 0)

\* _NodeElement.add_child
add_child(w, p, c) ==
    IF w.err # "none" THEN w
    ELSE IF can_add_child(w, p, c)
         THEN call("load_metadata",
                   call("write_attribs", append(w, p, c), c, 0), c, 0)
         ELSE w

\* _NodeElement.write_attribs and NodeComment.write_attribs
write_attribs(w, n) ==
    IF w.err # "none" THEN w
    ELSE IF IsElement(w, n) /\ w.is_hidden[n]
         THEN IF w.parent[n] = 0
              THEN Raise([w EXCEPT !.text[n] = w.prop[n]], "AttributeError")
              ELSE call("save_metadata", [w EXCEPT !.text[n] = w.prop[n]],
                        w.parent[n], 0)
         ELSE [w EXCEPT !.text[n] = w.prop[n]]

\* _NodeElement.set_hidden
set_hidden(w, n, hide) ==
    IF w.err # "none" THEN w
    ELSE IF w.parent[n] = 0
         THEN Raise([w EXCEPT !.is_hidden[n] = hide], "AttributeError")
    ELSE IF ~hide /\ ~InSeq(n, w.hidden_children[w.parent[n]])
         THEN Raise([w EXCEPT !.is_hidden[n] = hide], "ValueError")
    ELSE call("save_metadata",
              [w EXCEPT !.is_hidden[n] = hide,
                        !.hidden_children[w.parent[n]] =
                            IF hide THEN Append(@, n) ELSE RemoveFirst(@, n)],
              w.parent[n], 0)

\* a payload that is one JSON string: it decodes, but not to a mapping
IsJsonString(s) ==
    /\ Len(s) >= 2
    /\ s[1] = QUOTE
    /\ FindQuote(s, 2) = Len(s)

\* self.metadata after a payload was decoded to something without .get
NonMapping == [EmptyMeta EXCEPT !.keys = <<"not a mapping">>]

\* load_metadata, lines 228-231: what a payload decodes to replaces the
\* node's mapping; a payload that does not decode is passed over
decoded(w, n, payload) ==
    IF decode(payload).ok THEN [w EXCEPT !.metadata[n] = decode(payload).m]
    ELSE IF IsJsonString(payload) THEN [w EXCEPT !.metadata[n] = NonMapping]
    ELSE w

\* load_metadata, lines 225-231: the last sentinel comment that decodes wins
RECURSIVE scan_metadata(_, _, _, _)
scan_metadata(w, n, kids, i) ==
    IF w.err # "none" \/ i > Len(kids) THEN w
    ELSE IF is_meta_comment(w, kids[i])
         THEN IF ~split_rest(w.text[kids[i]]).ok THEN Raise(w, "IndexError")
              ELSE scan_metadata(decoded(w, n, split_rest(w.text[kids[i]]).s),
                                 n, kids, i + 1)
         ELSE scan_metadata(w, n, kids, i + 1)

\* load_metadata, lines 237-243
RECURSIVE load_hidden_nodes(_, _, _, _)
load_hidden_nodes(w, n, hidden_nodes, i) ==
    IF w.err # "none" \/ i > Len(hidden_nodes) THEN w
    ELSE IF ~fromstring(unescape_snapshot(hidden_nodes[i])).ok
         THEN Raise(w, "XMLSyntaxError")
    ELSE load_hidden_nodes(
             sort(call("set_hidden",
                       call("add_child",
                            call("copy_node", w, 0,
                                 fromstring(
                                     unescape_snapshot(hidden_nodes[i])).node),
                            n, Alloc(w)),
                       Alloc(w), TRUE),
                  n),
             n, hidden_nodes, i + 1)

\* load_metadata, lines 233-234: the label and the rank of the mapping
apply_metadata(w, n) ==
    [w EXCEPT
        !.label[n] = IF Has(w.metadata[n], "name") THEN w.metadata[n].name
                     ELSE update_item_name(w, n),
        !.user_sort_order[n] =
            IF Has(w.metadata[n], "user_sort") THEN w.metadata[n].user_sort
            ELSE ZERO_RANK]

\* load_metadata, lines 233-243
load_mapping(w, n) ==
    IF w.err # "none" THEN w
    ELSE IF w.metadata[n] = NonMapping THEN Raise(w, "AttributeError")
    ELSE IF Len(w.hidden_children[n]) = 0
         THEN load_hidden_nodes(
                  apply_metadata(w, n), n,
                  IF Has(w.metadata[n], "hidden_nodes")
                  THEN w.metadata[n].hidden_nodes ELSE <<>>, 1)
         ELSE apply_metadata(w, n)

\* _NodeElement.load_metadata and NodeComment.load_metadata
load_metadata(w, n) ==
    IF w.err # "none" \/ IsComment(w, n) THEN w
    ELSE load_mapping(scan_metadata(w, n, w.children[n], 1), n)

\* save_metadata, lines 249-267: the mapping recomputed from the node
recompute_metadata(w, n) ==
    LET m0 == w.metadata[n]
        m1 == IF w.label[n] # name(w.type[n])
              THEN Put(m0, "name", w.label[n]) ELSE Pop(m0, "name")
        m2 == IF Len(w.user_sort_order[n]) > 0
                 /\ w.user_sort_order[n] # ZERO_RANK
              THEN Put(m1, "user_sort", zfill(w.user_sort_order[n], 7))
              ELSE Pop(m1, "user_sort")
        h == w.hidden_children[n]
    IN  IF Len(h) > 0
        THEN Put(m2, "hidden_nodes",
                 [i \in 1..Len(h) |->
                      escape_snapshot(tostring(TreeOf(w, h[i])))])
        ELSE Pop(m2, "hidden_nodes")

\* save_metadata, lines 274-281: every sentinel comment is rewritten, or
\* removed when the mapping is empty
RECURSIVE update_meta_comments(_, _, _, _)
update_meta_comments(w, n, kids, i) ==
    IF i > Len(kids) THEN w
    ELSE IF is_meta_comment(w, kids[i])
         THEN update_meta_comments(
                  IF Len(w.metadata[n].keys) > 0
                  THEN [w EXCEPT !.text[kids[i]] = meta_text(w.metadata[n])]
                  ELSE [w EXCEPT !.children[n] = RemoveFirst(@, kids[i]),
                                 !.parent[kids[i]] = 0],
                  n, kids, i + 1)
         ELSE update_meta_comments(w, n, kids, i + 1)

\* save_metadata, lines 283-286: a sentinel comment is added when none was
\* found and the mapping is not empty
new_meta_comment(w, n, found) ==
    IF found \/ Len(w.metadata[n].keys) = 0 THEN w
    ELSE IF Alloc(w) = 0 THEN Raise(w, "bound")
    ELSE call("add_child",
              construct(w, Alloc(w), "NodeComment", meta_text(w.metadata[n])),
              n, Alloc(w))

\* save_metadata, lines 269-286
write_metadata(w, n) ==
    IF allowed_children(w.type[n]) = {} /\ ~has_node_text(w.type[n]) THEN w
    ELSE new_meta_comment(
             update_meta_comments(w, n, w.children[n], 1), n,
             \E i \in 1..Len(w.children[n]) :
                 is_meta_comment(w, w.children[n][i]))

\* _NodeElement.save_metadata and NodeComment.save_metadata
save_metadata(w, n) ==
    IF w.err # "none" \/ IsComment(w, n) THEN w
    ELSE write_metadata([w EXCEPT !.metadata[n] = recompute_metadata(w, n)],
                        n)

\* the method op of node n with argument x
call(op, w, n, x) ==
    CASE op = "add_child" -> add_child(w, n, x)
      [] op = "write_attribs" -> write_attribs(w, n)
      [] op = "set_hidden" -> set_hidden(w, n, x)
      [] op = "load_metadata" -> load_metadata(w, n)
      [] op = "save_metadata" -> save_metadata(w, n)
      [] op = "copy_node" -> copy_node(w, x)

\* a remove_child that has the parent save its metadata afterwards
remove_child_saving(w, p, c) ==
    IF w.parent[c] = p /\ InSeq(c, w.children[p])
    THEN save_metadata([w EXCEPT !.children[p] = RemoveFirst(@, c),
                                 !.parent[c] = 0], p)
    ELSE w

\* _NodeElement.remove_child
remove_child(w, p, c) ==
    IF w.parent[c] = p /\ InSeq(c, w.children[p])
    THEN [w EXCEPT !.children[p] = RemoveFirst(@, c), !.parent[c] = 0]
    ELSE w

(***************************************************************************)
(* Object lifetime and identity.  A node object nobody refers to any more  *)
(* is gone, and the number of an object carries no information: after a    *)
(* call the objects are numbered in document order, the document first,    *)
(* then the trees that only a hidden list of the document refers to, then  *)
(* the tree of the node the caller holds.                                  *)
(***************************************************************************)
Range(s) == {s[i] : i \in 1..Len(s)}

RECURSIVE Preorder(_, _)
Preorder(w, n) ==
    <<n>> \o Concat([i \in 1..Len(w.children[n]) |->
                         Preorder(w, w.children[n][i])])

Min(S) == CHOOSE k \in S : \A j \in S : k <= j

\* the positions of seq whose node has a hidden-list entry outside seq
Missing(w, seq) ==
    {i \in 1..Len(seq) :
        \E h \in Range(w.hidden_children[seq[i]]) : ~InSeq(h, seq)}

\* the first entry of the hidden list hs outside seq
FirstOpen(hs, seq) == hs[Min({k \in 1..Len(hs) : ~InSeq(hs[k], seq)})]

\* seq, and after it the trees its hidden lists refer to
RECURSIVE Order(_, _)
Order(w, seq) ==
    IF Missing(w, seq) = {} THEN seq
    ELSE Order(w, seq \o Preorder(w, RootOf(w,
                 FirstOpen(w.hidden_children[seq[Min(Missing(w, seq))]],
                           seq))))

\* s, and after it the tree of the node c the caller holds
WithHeld(w, s, c) ==
    IF c = 0 \/ InSeq(c, s) THEN s ELSE s \o Preorder(w, RootOf(w, c))

\* the live objects in the order of their numbers
Numbering(w, r, c) == Order(w, WithHeld(w, Order(w, Preorder(w, r)), c))

IndexOf(seq, x) == CHOOSE i \in 1..Len(seq) : seq[i] = x

Ref(seq, x) == IF x = 0 THEN 0 ELSE IndexOf(seq, x)

Refs(seq, xs) == [i \in 1..Len(xs) |-> Ref(seq, xs[i])]

Keep(seq, f, b) == [i \in Ids |-> IF i <= Len(seq) THEN f[seq[i]] ELSE b]

renumber(w, seq, r, c) ==
    [w |-> [type |-> Keep(seq, w.type, "none"),
            parent |-> [i \in Ids |-> IF i <= Len(seq)
                                      THEN Ref(seq, w.parent[seq[i]]) ELSE 0],
            children |-> [i \in Ids |-> IF i <= Len(seq)
                                        THEN Refs(seq, w.children[seq[i]])
                                        ELSE <<>>],
            hidden_children |->
                [i \in Ids |-> IF i <= Len(seq)
                               THEN Refs(seq, w.hidden_children[seq[i]])
                               ELSE <<>>],
            is_hidden |-> Keep(seq, w.is_hidden, FALSE),
            metadata |-> Keep(seq, w.metadata, EmptyMeta),
            label |-> Keep(seq, w.label, <<>>),
            user_sort_order |-> Keep(seq, w.user_sort_order, <<>>),
            text |-> Keep(seq, w.text, <<>>),
            prop |-> Keep(seq, w.prop, <<>>),
            err |-> w.err],
     root |-> Ref(seq, r), cand |-> Ref(seq, c),
     ref |-> [x \in Ids |-> IF InSeq(x, seq) THEN IndexOf(seq, x) ELSE 0]]

normalize(w, r, c) == renumber(w, Numbering(w, r, c), r, c)

\* the document as the parser hands it over: one node object per element
\* and comment of the file, in file order, no metadata loaded yet
RECURSIVE parse_document(_, _), parse_children(_, _, _, _)
parse_document(w, tv) ==
    parse_children(parsed_node(w, Alloc(w), tv, parsed_value(tv)),
                   Alloc(w), tv.kids, 1)

parse_children(w, a, kids, i) ==
    IF i > Len(kids) THEN w
    ELSE parse_children(append(parse_document(w, kids[i]), a, Alloc(w)),
                        a, kids, i + 1)

Install(w) ==
    /\ type' = w.type
    /\ parent' = w.parent
    /\ children' = w.children
    /\ hidden_children' = w.hidden_children
    /\ is_hidden' = w.is_hidden
    /\ metadata' = w.metadata
    /\ label' = w.label
    /\ user_sort_order' = w.user_sort_order
    /\ text' = w.text
    /\ prop' = w.prop
    /\ err' = w.err

DocNodes == Subtree(W, root)
DocElements == {n \in DocNodes : IsElement(W, n)}

NoTrip == [pc |-> "edit", obs |-> <<>>, doc |-> <<>>]

NoEsc ==
    /\ esc_pc = "off"
    /\ esc_src = <<>>
    /\ esc_in = <<>>
    /\ esc_out = <<>>
    /\ esc_back = <<>>

(***************************************************************************)
(* The calls of the editor on the document.  last records the call that    *)
(* returned last: the operation, the node it was called on, the type of    *)
(* the child it was given, its result (for add_child: whether              *)
(* can_add_child held when it was called), and whether the call before it  *)
(* was the same operation.                                                 *)
(***************************************************************************)
\* the types the editor constructs children of a node of type t with: the
\* types t allows among these five, a comment, and moduleName, which only
\* config allows, once
EditTypes(t) ==
    (allowed_children(t) \cap
         {"NodeConfigModName", "NodeConfigInstallSteps",
          "NodeConfigInstallStep", "NodeConfigDependencyType",
          "NodeConfigType"})
    \cup {"NodeComment", "NodeConfigModName"}

PropVals(t) ==
    IF t = "NodeComment" \/ has_properties(t) THEN {<<97>>} ELSE {<<>>}

\* the objects after a call of op on node n with child type t that returned
\* ok, the caller holding c afterwards
Returned(op, n, t, ok, z) ==
    /\ Install(z.w)
    /\ root' = z.root
    /\ cand' = z.cand
    /\ last' = [op |-> op, n |-> z.ref[n], t |-> t, ok |-> ok,
                rep |-> (last.op = op)]
    /\ UNCHANGED <<escvars, trip>>

Return(op, n, t, ok, w, c) ==
    /\ err = "none"
    /\ w.err # "bound"
    /\ Returned(op, n, t, ok, normalize(w, root, c))

Finish(op, n, t, ok, w, c) ==
    /\ calls < MaxCalls
    /\ calls' = calls + 1
    /\ Return(op, n, t, ok, w, c)
    /\ UNCHANGED removed

\* p.add_child(a) has returned r: the caller keeps a when p did not take it
Handed(op, p, t, ok, r, a) ==
    Finish(op, p, t, ok, r, IF r.parent[a] = 0 THEN a ELSE 0)

HandOver(op, p, t, w, a) ==
    Handed(op, p, t, can_add_child(w, p, a), add_child(w, p, a), a)

Constructed(p, t, v, w) ==
    /\ Alloc(w) # 0
    /\ HandOver("new_child", p, t, construct(w, Alloc(w), t, v), Alloc(w))

\* the caller constructs a node and hands it to p.add_child; it keeps the
\* node when p does not take it, and drops a node it held before
NewChild(p, t, v) == Constructed(p, t, v, normalize(W, root, 0).w)

\* p.can_add_child of the node the caller holds
CanAddChild(p) ==
    /\ cand # 0
    /\ Finish("can_add_child", p, type[cand], can_add_child(W, p, cand), W,
              cand)

\* the caller hands the node it holds to p.add_child
AddChild(p) ==
    /\ cand # 0
    /\ HandOver("add_child", p, type[cand], W, cand)

Removed(p, c, r) ==
    /\ calls < MaxCalls
    /\ calls' = calls + 1
    /\ Return("remove_child", p, type[c], TRUE, r,
              IF r.parent[c] = 0 THEN c ELSE cand)
    /\ removed' = IF r.parent[c] # parent[c]
                  THEN removed \cup {<<type[p], type[c]>>} ELSE removed

\* p.remove_child(c); the caller holds c afterwards
RemoveChild(p, c) == Removed(p, c, remove_child(W, p, c))

SetHidden(n, hide) ==
    /\ hide /\ parent[n] # 0 => Len(hidden_children[parent[n]]) < MaxHidden
    /\ Finish(IF hide THEN "hide" ELSE "unhide", n, "none", TRUE,
              set_hidden(W, n, hide), cand)

Sort(n) == Finish("sort", n, "none", TRUE, sort(W, n), cand)

LoadMetadata(n) ==
    Finish("load_metadata", n, "none", TRUE, load_metadata(W, n), cand)

SaveMetadata(n) ==
    Finish("save_metadata", n, "none", TRUE, save_metadata(W, n), cand)

\* the documents the editor opens
El(t, v, kids) == [type |-> t, text |-> v, kids |-> kids]
Cm(v) == [type |-> "NodeComment", text |-> v, kids |-> <<>>]
Meta(keys, nm, us, hn) ==
    Cm(meta_text([keys |-> keys, name |-> nm, user_sort |-> us,
                  hidden_nodes |-> hn]))
Snapshot(tv) == escape_snapshot(tostring(tv))

\* an empty config, an empty typeDescriptor and one with a dependencyType,
\* install steps with a user rank and a hidden install step, and two
\* documents whose sentinel comment was edited by hand: a hidden moduleName
\* next to a moduleName, and a hidden node of a type config does not allow
InitDocs ==
    {El("NodeConfigRoot", <<>>, <<>>),
     El("NodeConfigTypeDesc", <<>>, <<>>),
     El("NodeConfigTypeDesc", <<>>,
        <<El("NodeConfigDependencyType", <<>>, <<>>)>>),
     El("NodeConfigInstallSteps", <<>>,
        <<El("NodeConfigInstallStep", <<97>>, <<>>),
          Meta(<<"user_sort", "hidden_nodes">>, <<>>, <<49>>,
               <<Snapshot(El("NodeConfigInstallStep", <<98>>, <<>>))>>)>>),
     El("NodeConfigRoot", <<>>,
        <<El("NodeConfigModName", <<97>>, <<>>),
          Meta(<<"hidden_nodes">>, <<>>, <<>>,
               <<Snapshot(El("NodeConfigModName", <<98>>, <<>>))>>)>>),
     El("NodeConfigRoot", <<>>,
        <<Meta(<<"hidden_nodes">>, <<>>, <<>>,
               <<Snapshot(El("NodeConfigInstallStep", <<98>>, <<>>))>>)>>)}

Parsed(w) ==
    /\ type = w.type
    /\ parent = w.parent
    /\ children = w.children
    /\ hidden_children = w.hidden_children
    /\ is_hidden = w.is_hidden
    /\ metadata = w.metadata
    /\ label = w.label
    /\ user_sort_order = w.user_sort_order
    /\ text = w.text
    /\ prop = w.prop
    /\ root = Alloc(BlankWorld)
    /\ cand = 0
    /\ calls = 0
    /\ err = "none"
    /\ last = [op |-> "open", n |-> 0, t |-> "none", ok |-> TRUE,
               rep |-> FALSE]
    /\ removed = {}
    /\ NoEsc
    /\ trip = NoTrip

\* the editor has opened document d
Opened(d) == Parsed(parse_document(BlankWorld, d))

Init == \E d \in InitDocs : Opened(d)

Next ==
    \/ \E p \in DocElements :
           \E t \in EditTypes(type[p]) : \E v \in PropVals(t) :
               NewChild(p, t, v)
    \/ \E p \in DocElements : CanAddChild(p)
    \/ \E p \in DocElements : AddChild(p)
    \/ \E p \in DocElements : \E c \in Range(children[p]) \cup {root} :
           RemoveChild(p, c)
    \/ \E n \in DocElements : \E hide \in BOOLEAN : SetHidden(n, hide)
    \/ \E n \in DocNodes : Sort(n)
    \/ \E n \in DocElements : LoadMetadata(n)
    \/ \E n \in DocElements : SaveMetadata(n)

Spec == Init /\ [][Next]_vars

(***************************************************************************)
(* can_add_child over the whole registry: a node of any type, and under it *)
(* every type it allows, a comment, and two types it does not allow.       *)
(***************************************************************************)
CandTypes(t) ==
    allowed_children(t) \cup {"NodeComment", "NodeConfigRoot",
                              "NodeInfoElement"}

InitCan == \E t \in ElementTypes : Opened(El(t, <<>>, <<>>))

ConstructedCan(t, w) ==
    /\ Alloc(w) # 0
    /\ Return("construct", Alloc(w), t, TRUE,
              construct(w, Alloc(w), t, <<>>), Alloc(w))
    /\ UNCHANGED <<calls, removed>>

ConstructCan(t) == ConstructedCan(t, normalize(W, root, 0).w)

CanAddChildCan ==
    /\ cand # 0
    /\ Return("can_add_child", root, type[cand],
              can_add_child(W, root, cand), W, cand)
    /\ UNCHANGED <<calls, removed>>

HandedCan(r) ==
    Return("add_child", root, type[cand], can_add_child(W, root, cand), r,
           IF r.parent[cand] = 0 THEN cand ELSE 0)

AddChildCan ==
    /\ cand # 0
    /\ Len(children[root]) < MaxKids
    /\ HandedCan(add_child(W, root, cand))
    /\ UNCHANGED <<calls, removed>>

NextCan ==
    \/ \E t \in CandTypes(type[root]) : ConstructCan(t)
    \/ CanAddChildCan
    \/ AddChildCan

SpecCan == InitCan /\ [][NextCan]_vars

(***************************************************************************)
(* The escaping of a hidden-subtree snapshot as a pipeline of its own:     *)
(* the serialization of a hidden node (save_metadata, line 263), its       *)
(* escaping (line 264) and its un-escaping (load_metadata, line 238).      *)
(***************************************************************************)
Alphabet == {32, 33, 45, 60, 62}

Strings(n) == UNION {[1..k -> Alphabet] : k \in 0..n}

\* the hidden node: a moduleName with the text, or with one comment child
SrcTree(src) ==
    IF src.kind = "text" THEN El("NodeConfigModName", src.chars, <<>>)
    ELSE El("NodeConfigModName", <<>>, <<Cm(src.chars)>>)

InitEsc ==
    /\ type = BlankWorld.type
    /\ parent = BlankWorld.parent
    /\ children = BlankWorld.children
    /\ hidden_children = BlankWorld.hidden_children
    /\ is_hidden = BlankWorld.is_hidden
    /\ metadata = BlankWorld.metadata
    /\ label = BlankWorld.label
    /\ user_sort_order = BlankWorld.user_sort_order
    /\ text = BlankWorld.text
    /\ prop = BlankWorld.prop
    /\ root = 0
    /\ cand = 0
    /\ calls = 0
    /\ err = "none"
    /\ last = [op |-> "open", n |-> 0, t |-> "none", ok |-> TRUE,
               rep |-> FALSE]
    /\ removed = {}
    /\ esc_pc = "src"
    /\ esc_src \in {[kind |-> k, chars |-> s] :
                       k \in {"text", "comment"}, s \in Strings(MaxStrLen)}
    /\ esc_in = <<>>
    /\ esc_out = <<>>
    /\ esc_back = <<>>
    /\ trip = NoTrip

Serialize ==
    /\ esc_pc = "src"
    /\ esc_in' = tostring(SrcTree(esc_src))
    /\ esc_pc' = "serialized"
    /\ UNCHANGED <<nodevars, root, cand, calls, err, last, removed, trip,
                   esc_src, esc_out, esc_back>>

Escape ==
    /\ esc_pc = "serialized"
    /\ esc_out' = escape_snapshot(esc_in)
    /\ esc_pc' = "escaped"
    /\ UNCHANGED <<nodevars, root, cand, calls, err, last, removed, trip,
                   esc_src, esc_in, esc_back>>

Unescape ==
    /\ esc_pc = "escaped"
    /\ esc_back' = unescape_snapshot(esc_out)
    /\ esc_pc' = "restored"
    /\ UNCHANGED <<nodevars, root, cand, calls, err, last, removed, trip,
                   esc_src, esc_in, esc_out>>

NextEsc == Serialize \/ Escape \/ Unescape

SpecEsc == InitEsc /\ [][NextEsc]_vars

(***************************************************************************)
(* Documents whose sentinel comment was damaged or edited by hand: no      *)
(* payload, a payload that is not JSON, a payload that is a JSON string,   *)
(* a snapshot that is not well-formed next to one that is, and a snapshot  *)
(* the node refuses next to one it accepts.                                *)
(***************************************************************************)
LoadDocs ==
    {El("NodeConfigRoot", <<>>, <<Cm(<<SENTINEL>>)>>),
     El("NodeConfigRoot", <<>>, <<Cm(<<SENTINEL, 32>>)>>),
     El("NodeConfigRoot", <<>>, <<Cm(<<SENTINEL, 32, 97>>)>>),
     El("NodeConfigRoot", <<>>, <<Cm(<<SENTINEL, 32, QUOTE, 97, QUOTE>>)>>),
     El("NodeConfigInstallSteps", <<>>,
        <<Meta(<<"name", "user_sort", "hidden_nodes">>, <<98>>,
               <<48, 48, 48, 48, 48, 48, 49>>,
               <<<<60>>,
                 Snapshot(El("NodeConfigInstallStep", <<97>>, <<>>))>>)>>),
     El("NodeConfigRoot", <<>>,
        <<El("NodeConfigModName", <<97>>, <<>>),
          Meta(<<"name", "user_sort", "hidden_nodes">>, <<98>>,
               <<48, 48, 48, 48, 48, 48, 49>>,
               <<Snapshot(El("NodeConfigModName", <<98>>, <<>>)),
                 Snapshot(El("NodeConfigInstallSteps", <<>>, <<>>))>>)>>)}

InitLoad == \E d \in LoadDocs : Opened(d)

SpecLoad == InitLoad /\ [][Next]_vars

(***************************************************************************)
(* Moving a node: a config whose children are not in key order, with       *)
(* install steps the editor can take out and hand back.  The install steps *)
(* carry a snapshot of a hidden install step in one document and nothing   *)
(* in the other; their metadata is not loaded until they are added.        *)
(***************************************************************************)
AddDocs ==
    {El("NodeConfigRoot", <<>>,
        <<El("NodeConfigModDepend", <<>>, <<>>),
          El("NodeConfigModName", <<97>>, <<>>),
          El("NodeConfigInstallSteps", <<>>,
             <<Meta(<<"hidden_nodes">>, <<>>, <<>>,
                    <<Snapshot(El("NodeConfigInstallStep", <<97>>,
                                  <<>>))>>)>>)>>),
     El("NodeConfigRoot", <<>>,
        <<El("NodeConfigModDepend", <<>>, <<>>),
          El("NodeConfigModName", <<97>>, <<>>),
          El("NodeConfigInstallSteps", <<>>, <<>>)>>)}

InitAdd == \E d \in AddDocs : Opened(d)

SpecAdd == InitAdd /\ [][Next]_vars

(***************************************************************************)
(* Editing properties: the property editor stores a value in the property  *)
(* of a node, and the node writes its properties into its attributes and   *)
(* text.  The documents are install steps with one step, a typeDescriptor  *)
(* with a type, and a config with a module name.                           *)
(***************************************************************************)
AttrVals == {<<97>>, <<98>>}

\* the property of n takes the value v; nothing is written yet
SetValue(n, v) ==
    /\ has_properties(type[n])
    /\ prop[n] # v
    /\ Finish("set_value", n, "none", TRUE, [W EXCEPT !.prop[n] = v], cand)

\* n.write_attribs()
WriteAttribs(n) ==
    Finish("write_attribs", n, "none", TRUE, write_attribs(W, n), cand)

AttrDocs ==
    {El("NodeConfigInstallSteps", <<>>,
        <<El("NodeConfigInstallStep", <<97>>, <<>>)>>),
     El("NodeConfigTypeDesc", <<>>,
        <<El("NodeConfigType", <<97>>, <<>>)>>),
     El("NodeConfigRoot", <<>>,
        <<El("NodeConfigModName", <<97>>, <<>>)>>)}

InitAttr == \E d \in AttrDocs : Opened(d)

NextAttr ==
    \/ \E n \in DocElements : \E v \in AttrVals : SetValue(n, v)
    \/ \E n \in DocElements : WriteAttribs(n)
    \/ \E n \in DocElements : \E hide \in BOOLEAN : SetHidden(n, hide)
    \/ \E n \in DocElements : SaveMetadata(n)

SpecAttr == InitAttr /\ [][NextAttr]_vars

(***************************************************************************)
(* Sorting: documents with siblings of equal keys, with children out of    *)
(* order two levels down, with a user rank to load, and with a comment     *)
(* among elements.                                                         *)
(***************************************************************************)
SortDocs ==
    {El("NodeConfigInstallSteps", <<>>,
        <<El("NodeConfigInstallStep", <<98>>,
             <<El("NodeConfigOptGroups", <<>>, <<>>),
               El("NodeConfigVisible", <<>>, <<>>)>>),
          El("NodeConfigInstallStep", <<97>>, <<>>)>>),
     El("NodeConfigInstallSteps", <<>>,
        <<El("NodeConfigInstallStep", <<97>>,
             <<Meta(<<"user_sort">>, <<>>, <<48, 48, 48, 48, 48, 48, 49>>,
                    <<>>)>>),
          El("NodeConfigInstallStep", <<98>>, <<>>)>>),
     El("NodeConfigRoot", <<>>,
        <<El("NodeConfigInstallSteps", <<>>, <<>>), Cm(<<97>>),
          El("NodeConfigModName", <<97>>, <<>>)>>)}

InitSort == \E d \in SortDocs : Opened(d)

NextSort ==
    \/ \E n \in DocNodes : Sort(n)
    \/ \E n \in DocElements : LoadMetadata(n)
    \/ \E p \in DocElements :
           \E t \in EditTypes(type[p]) : \E v \in PropVals(t) :
               NewChild(p, t, v)

SpecSort == InitSort /\ [][NextSort]_vars

(***************************************************************************)
(* Saving the package and opening it again.  The serializer runs           *)
(* save_metadata over the tree, children before parents, and writes the    *)
(* tree as text; the parser makes one node per element and comment of the  *)
(* text and runs load_metadata on each, in document order.                 *)
(***************************************************************************)
RECURSIVE Postorder(_, _)
Postorder(w, n) ==
    Concat([i \in 1..Len(w.children[n]) |-> Postorder(w, w.children[n][i])])
    \o <<n>>

RECURSIVE save_all(_, _, _)
save_all(w, seq, i) ==
    IF i > Len(seq) THEN w
    ELSE save_all(save_metadata(w, seq[i]), seq, i + 1)

RECURSIVE load_all(_, _, _)
load_all(w, seq, i) ==
    IF i > Len(seq) THEN w
    ELSE load_all(load_metadata(w, seq[i]), seq, i + 1)

\* the children of n a consumer sees: not hidden, not the sentinel comment
Visible(w, n) ==
    SelectSeq(w.children[n],
              LAMBDA c : ~w.is_hidden[c] /\ ~is_meta_comment(w, c))

\* what can be observed of the tree of n: the visible children in order,
\* the snapshots of the hidden nodes, the labels and the ranks
RECURSIVE ObsTree(_, _)
ObsTree(w, n) ==
    [type |-> w.type[n], label |-> w.label[n],
     rank |-> w.user_sort_order[n],
     kids |-> [i \in 1..Len(Visible(w, n)) |->
                   ObsTree(w, Visible(w, n)[i])],
     hidden |-> {tostring(TreeOf(w, w.hidden_children[n][i])) :
                    i \in 1..Len(w.hidden_children[n])}]

SavedAs(z) ==
    /\ Install(z.w)
    /\ root' = z.root
    /\ cand' = z.cand
    /\ last' = [op |-> "save", n |-> z.root, t |-> "none", ok |-> TRUE,
                rep |-> (last.op = "save")]
    /\ trip' = [pc |-> "saved", obs |-> ObsTree(z.w, z.root),
                doc |-> tostring(TreeOf(z.w, z.root))]
    /\ UNCHANGED <<calls, removed, escvars>>

Saved(w) ==
    /\ w.err # "bound"
    /\ SavedAs(normalize(w, root, cand))

\* MainFrame.save
Save ==
    /\ trip.pc = "edit"
    /\ err = "none"
    /\ Saved(save_all(W, Postorder(W, root), 1))

ReopenedAs(z) ==
    /\ Install(z.w)
    /\ root' = z.root
    /\ cand' = 0
    /\ last' = [op |-> "open", n |-> 0, t |-> "none", ok |-> TRUE,
                rep |-> (last.op = "open")]
    /\ trip' = [trip EXCEPT !.pc = "opened"]
    /\ UNCHANGED <<calls, removed, escvars>>

Reopened(w) ==
    /\ w.err # "bound"
    /\ ReopenedAs(normalize(w, Alloc(BlankWorld), 0))

Reparsed(w) == Reopened(load_all(w, Preorder(w, Alloc(BlankWorld)), 1))

OpenFailed ==
    /\ err' = "XMLSyntaxError"
    /\ trip' = [trip EXCEPT !.pc = "opened"]
    /\ UNCHANGED <<nodevars, root, cand, calls, last, removed, escvars>>

\* MainFrame.open of the package saved last
Open ==
    /\ trip.pc = "saved"
    /\ err = "none"
    /\ IF fromstring(trip.doc).ok
       THEN Reparsed(parse_document(BlankWorld, fromstring(trip.doc).node))
       ELSE OpenFailed

\* a hidden node of a type without a maximum, a custom label and rank next
\* to a node of a type with a maximum, and a node that gets a sentinel
\* comment of its own when it is saved
TripDocs ==
    {El("NodeConfigRoot", <<>>,
        <<El("NodeConfigModDepend", <<>>,
             <<El("NodeConfigDependFile", <<97>>, <<>>)>>)>>),
     El("NodeConfigRoot", <<>>,
        <<El("NodeConfigModName", <<97>>, <<>>),
          Meta(<<"name", "user_sort">>, <<98>>,
               <<48, 48, 48, 48, 48, 48, 49>>, <<>>)>>),
     El("NodeConfigInstallSteps", <<>>,
        <<El("NodeConfigInstallStep", <<97>>, <<>>)>>)}

InitTrip == \E d \in TripDocs : Opened(d)

NextTrip ==
    \/ \E n \in DocElements : trip.pc = "edit" /\ LoadMetadata(n)
    \/ \E n \in DocElements : \E hide \in BOOLEAN :
           trip.pc = "edit" /\ SetHidden(n, hide)
    \/ Save
    \/ Open

SpecTrip == InitTrip /\ [][NextTrip]_vars

(***************************************************************************)
(* Claims.                                                                 *)
(***************************************************************************)
Allowed(p, c) ==
    type[c] = "NodeComment" \/ type[c] \in allowed_children(type[p])

BelowMax(p, c) ==
    \/ allowed_instances(type[c]) = 0
    \/ Cardinality({i \in 1..Len(children[p]) :
                        type[children[p][i]] = type[c]})
           < allowed_instances(type[c])

CanAddChildPure ==
    [][last'.op = "can_add_child" => UNCHANGED <<nodevars, root, cand>>]_vars

EscapeRoundTrip == esc_pc = "restored" => esc_back = esc_in

\* C7: the escaped snapshot that save_metadata stores contains none of the
\* sequences <!--, --> and --.
EscapedHasNoDelimiter ==
    esc_pc \in {"escaped", "restored"} =>
        /\ ~Contains(esc_out, COMMENT_OPEN)
        /\ ~Contains(esc_out, COMMENT_CLOSE)
        /\ ~Contains(esc_out, DOUBLE_HYPHEN)

\* the children of p that have type t
Count(p, t) ==
    Cardinality({i \in 1..Len(children[p]) : type[children[p][i]] = t})

HasKid(p, t) == \E i \in 1..Len(children[p]) : type[children[p][i]] = t

\* the fields of node n are left as they were
NodeUnchanged(n) ==
    /\ type'[n] = type[n]
    /\ parent'[n] = parent[n]
    /\ children'[n] = children[n]
    /\ hidden_children'[n] = hidden_children[n]
    /\ is_hidden'[n] = is_hidden[n]
    /\ metadata'[n] = metadata[n]
    /\ label'[n] = label[n]
    /\ user_sort_order'[n] = user_sort_order[n]
    /\ text'[n] = text[n]
    /\ prop'[n] = prop[n]

\* C2: when can_add_child(c) is false for a parent, add_child(c) raises no
\* error and leaves the parent (children, hidden list, metadata) and c
\* (parent pointer, attributes, metadata) exactly as they were: nothing
\* changes when c was held before the call, and when c was constructed for
\* the call the document is as it was and c is as constructed.
RejectedAddChildIsNoOp ==
    [][(last'.op \in {"new_child", "add_child"} /\ ~last'.ok) =>
           /\ err' = "none"
           /\ root' = root
           /\ \A n \in DocNodes : NodeUnchanged(n)
           /\ last'.op = "add_child" => UNCHANGED <<nodevars, cand>>
           /\ last'.op = "new_child" =>
                  /\ cand' # 0
                  /\ type'[cand'] = last'.t
                  /\ parent'[cand'] = 0
                  /\ children'[cand'] = <<>>
                  /\ hidden_children'[cand'] = <<>>
                  /\ ~is_hidden'[cand']
                  /\ metadata'[cand'] = EmptyMeta
                  /\ text'[cand'] = <<>>]_vars

\* a second moduleName was handed to a config that has one, and is still
\* held by the caller
RejectedAddChildWitness ==
    /\ last.op = "add_child"
    /\ ~last.ok
    /\ err = "none"
    /\ type[last.n] = "NodeConfigRoot"
    /\ last.t = "NodeConfigModName"
    /\ Count(last.n, "NodeConfigModName") = 1
    /\ cand # 0
    /\ parent[cand] = 0

\* C3: in every reachable state, for every parent and every node type T
\* with a maximum N > 0, the parent has at most N children of type T,
\* hidden children included.
CardinalityInvariant ==
    \A p \in Ids : \A t \in ElementTypes :
        type[p] # "none" /\ allowed_instances(t) > 0 =>
            Count(p, t) <= allowed_instances(t)

\* a parent whose only child of a type with a maximum of one is hidden has
\* been offered another child of that type
CardinalityWitness ==
    /\ last.op = "new_child"
    /\ ~last.ok
    /\ allowed_instances(last.t) = 1
    /\ Count(last.n, last.t) = 1
    /\ \E i \in 1..Len(children[last.n]) :
           /\ type[children[last.n][i]] = last.t
           /\ is_hidden[children[last.n][i]]

\* C4: in every reachable state every non-comment child of every node has a
\* type that its parent's allowed_children lists, the children load_metadata
\* re-creates from hidden-subtree snapshots included.
AllowedChildrenInvariant ==
    \A p \in Ids : \A i \in 1..Len(children[p]) :
        type[children[p][i]] # "NodeComment" =>
            type[children[p][i]] \in allowed_children(type[p])

\* load_metadata has re-created a hidden child from a snapshot
AllowedChildrenWitness ==
    /\ last.op = "load_metadata"
    /\ err = "none"
    /\ \E i \in 1..Len(children[last.n]) :
           /\ is_hidden[children[last.n][i]]
           /\ InSeq(children[last.n][i], hidden_children[last.n])
           /\ type[children[last.n][i]] \in allowed_children(type[last.n])

\* C5: for a typeDescriptor node, while it has a dependencyType child
\* add_child of a type child is rejected and leaves the node unchanged, and
\* the same with the two types swapped; and in every state in which the
\* dependencyType child has been removed with remove_child and the node has
\* neither a dependencyType nor a type child, add_child of a type child
\* succeeds and the type node becomes a child.
EitherGroupScenario ==
    [][/\ \A t \in {"NodeConfigDependencyType", "NodeConfigType"} :
            \A o \in {"NodeConfigDependencyType", "NodeConfigType"} \ {t} :
                (/\ type[root] = "NodeConfigTypeDesc"
                 /\ HasKid(root, t)
                 /\ last'.op \in {"new_child", "add_child"}
                 /\ last'.n = root
                 /\ last'.t = o)
                => NodeUnchanged(root)
       /\ (/\ type[root] = "NodeConfigTypeDesc"
           /\ <<"NodeConfigTypeDesc", "NodeConfigDependencyType">> \in removed
           /\ ~HasKid(root, "NodeConfigDependencyType")
           /\ ~HasKid(root, "NodeConfigType")
           /\ last'.op \in {"new_child", "add_child"}
           /\ last'.n = root
           /\ last'.t = "NodeConfigType")
          => \E i \in 1..Len(children'[root']) :
                 type'[children'[root'][i]] = "NodeConfigType"]_vars

\* C8: when a tree with hidden nodes, custom labels and custom ranks is
\* saved and the package is opened again, no call raises and the tree has
\* the same visible children in the same order, the same hidden-node
\* snapshots, and the same labels and ranks as when it was saved.
SaveOpenRoundTrip ==
    trip.pc = "opened" => err = "none" /\ ObsTree(W, root) = trip.obs

Ascending(x) ==
    \A i \in 1..(Len(children[x]) - 1) :
        ~StrLess(sort_key(W, children[x][i + 1]),
                 sort_key(W, children[x][i]))

\* C9: when n.sort() has returned, the children of every node of the
\* subtree of n, n included, are in ascending order of their sort keys.
SortedAfterSort ==
    last.op = "sort" => \A x \in Subtree(W, last.n) : Ascending(x)

\* the first call on a document was sort, and below the node it was called
\* on a node has two children with different keys
SortedAfterSortWitness ==
    /\ last.op = "sort"
    /\ calls = 1
    /\ \E x \in Subtree(W, last.n) \ {last.n} :
           \E i \in 1..(Len(children[x]) - 1) :
               StrLess(sort_key(W, children[x][i]),
                       sort_key(W, children[x][i + 1]))

\* C10: a sort() that follows a sort() changes the order of no node's
\* children, siblings of equal keys included (sort() of a comment does
\* nothing, so the first of the two is a sort() of an element, or both are
\* of a comment).
SortTwiceIsSortOnce ==
    [][(/\ last.op = "sort"
        /\ last'.op = "sort"
        /\ \/ type[last.n] # "NodeComment"
           \/ type'[last'.n] = "NodeComment")
       => UNCHANGED <<nodevars, root, cand>>]_vars

\* sort() was called twice in a row on a document with two siblings of
\* equal keys that can be told apart
SortTwiceWitness ==
    /\ last.op = "sort"
    /\ last.rep
    /\ type[last.n] # "NodeComment"
    /\ \E x \in DocNodes : \E i \in 1..(Len(children[x]) - 1) :
           /\ sort_key(W, children[x][i]) = sort_key(W, children[x][i + 1])
           /\ label[children[x][i]] # label[children[x][i + 1]]

\* the escaped serialization of the subtree of n
SnapshotIn(w, n) == escape_snapshot(tostring(TreeOf(w, n)))

SnapshotOf(n) == SnapshotIn(W, n)

\* the metadata mapping of p lists the snapshot s
InMeta(p, s) ==
    Has(metadata[p], "hidden_nodes") /\ InSeq(s, metadata[p].hidden_nodes)

\* C11: in every state, a child whose is_hidden flag is true is not in the
\* children sequence of its parent, and the metadata mapping of the parent
\* holds its serialized form.
HiddenChildIsDetached ==
    \A n \in DocNodes :
        (is_hidden[n] /\ parent[n] # 0) =>
            /\ ~InSeq(n, children[parent[n]])
            /\ InMeta(parent[n], SnapshotOf(n))

\* the hidden-snapshot list a sentinel comment k encodes
PersistedList(w, k) ==
    IF split_rest(w.text[k]).ok /\ decode(split_rest(w.text[k]).s).ok
    THEN decode(split_rest(w.text[k]).s).m.hidden_nodes ELSE <<>>

\* p has a sentinel comment child whose hidden-snapshot list contains s
PersistedIn(w, p, s) ==
    \E i \in 1..Len(w.children[p]) :
        /\ is_meta_comment(w, w.children[p][i])
        /\ InSeq(s, PersistedList(w, w.children[p][i]))

Persisted(p, s) == PersistedIn(W, p, s)

Occurrences(seq, x) == Cardinality({i \in 1..Len(seq) : seq[i] = x})

\* C12: when c.set_hidden(True) has returned, c is in the hidden list of its
\* parent, the parent has a sentinel comment whose snapshot list contains
\* the escaped serialization of c, and c is still a child of the parent;
\* when c.set_hidden(False) returns after that, c is not in the hidden list,
\* no sentinel comment of the parent holds a snapshot of c, and c is still
\* a child of the parent with the same subtree.
SetHiddenPersists ==
    /\ [](last.op = "hide" /\ err = "none" =>
             /\ InSeq(last.n, hidden_children[parent[last.n]])
             /\ Persisted(parent[last.n], SnapshotOf(last.n))
             /\ InSeq(last.n, children[parent[last.n]]))
    /\ [][(/\ last.op = "hide" /\ err = "none"
           /\ Occurrences(hidden_children[parent[last.n]], last.n) = 1
           /\ last'.op = "unhide" /\ err' = "none"
           /\ TreeOf(W', last'.n) = TreeOf(W, last.n))
          => /\ ~InSeq(last'.n, hidden_children'[parent'[last'.n]])
             /\ ~PersistedIn(W', parent'[last'.n], SnapshotIn(W', last'.n))
             /\ InSeq(last'.n, children'[parent'[last'.n]])]_vars

\* the subtrees of the children of p, in order
KidTrees(w, p) ==
    [i \in 1..Len(w.children[p]) |-> TreeOf(w, w.children[p][i])]

RemoveAt(seq, i) == SubSeq(seq, 1, i - 1) \o SubSeq(seq, i + 1, Len(seq))

\* C13: p.remove_child(c) raises nothing and leaves the metadata mapping of
\* p unchanged; when c is a child of p (the editor passes a child or the
\* root, which is no child), c is detached and the other children, the
\* sentinel comment and its text among them, stay as they were, in their
\* order; otherwise nothing changes.
RemoveChildFrame ==
    [][last'.op = "remove_child" =>
          /\ err' = "none"
          /\ metadata'[last'.n] = metadata[last'.n]
          /\ IF last'.t # type[root]
             THEN /\ cand' # 0
                  /\ parent'[cand'] = 0
                  /\ \E i \in 1..Len(children[last'.n]) :
                         /\ TreeOf(W, children[last'.n][i])
                                = TreeOf(W', cand')
                         /\ KidTrees(W', last'.n)
                                = RemoveAt(KidTrees(W, last'.n), i)
             ELSE TreeOf(W', root') = TreeOf(W, root)]_vars

\* remove_child has detached a child from a parent that keeps a sentinel
\* comment and another child
RemoveChildWitness ==
    /\ last.op = "remove_child"
    /\ last.t # type[root]
    /\ cand # 0
    /\ \E i \in 1..Len(children[last.n]) :
           is_meta_comment(W, children[last.n][i])

\* the payload of the sentinel comment k is missing or decodes to no mapping
Malformed(k) ==
    \/ ~split_rest(text[k]).ok
    \/ ~decode(split_rest(text[k]).s).ok

SentinelsIn(w, n) ==
    {w.children[n][i] : i \in {j \in 1..Len(w.children[n]) :
                                  is_meta_comment(w, w.children[n][j])}}

SentinelsOf(n) == SentinelsIn(W, n)

\* C14: when load_metadata is the first call on a node whose sentinel
\* comment has no payload or a payload that does not decode to a mapping,
\* it raises nothing and leaves the node with the default label, the
\* default rank and no hidden child.
MalformedPayloadIgnored ==
    (/\ last.op = "load_metadata"
     /\ calls = 1
     /\ SentinelsOf(last.n) # {}
     /\ \A k \in SentinelsOf(last.n) : Malformed(k))
    => /\ err = "none"
       /\ label[last.n] = update_item_name(W, last.n)
       /\ user_sort_order[last.n] = ZERO_RANK
       /\ hidden_children[last.n] = <<>>

\* the snapshot s can be turned back into a node that n accepts
Rebuildable(n, s) ==
    /\ fromstring(unescape_snapshot(s)).ok
    /\ fromstring(unescape_snapshot(s)).node.type
           \in allowed_children(type[n])
    /\ \/ allowed_instances(fromstring(unescape_snapshot(s)).node.type) = 0
       \/ Count(n, fromstring(unescape_snapshot(s)).node.type)
              < allowed_instances(fromstring(unescape_snapshot(s)).node.type)

\* the sentinel comment k of n lists several snapshots, one of which cannot
\* be turned back into a node
OneBadSnapshot(n, k) ==
    /\ ~Malformed(k)
    /\ Len(PersistedList(W, k)) >= 2
    /\ \E i \in 1..Len(PersistedList(W, k)) :
           ~Rebuildable(n, PersistedList(W, k)[i])

\* C15: when load_metadata is the first call on a node whose metadata lists
\* several snapshots of which one cannot be turned back into a node, it
\* raises nothing, every other snapshot becomes a hidden child, and the
\* label override and the rank of the metadata are applied.
BadSnapshotSkipped ==
    [][(/\ last'.op = "load_metadata"
        /\ calls = 0
        /\ \E k \in SentinelsOf(last'.n) : OneBadSnapshot(last'.n, k))
       => /\ err' = "none"
          /\ \A k \in SentinelsOf(last'.n) :
                 /\ label'[last'.n] = decode(split_rest(text[k]).s).m.name
                 /\ user_sort_order'[last'.n]
                        = decode(split_rest(text[k]).s).m.user_sort
                 /\ \A i \in 1..Len(PersistedList(W, k)) :
                        Rebuildable(last'.n, PersistedList(W, k)[i]) =>
                            \E j \in 1..Len(hidden_children'[last'.n]) :
                                SnapshotIn(W', hidden_children'[last'.n][j])
                                    = PersistedList(W, k)[i]]_vars

\* C16: a load_metadata that follows a load_metadata of the same node
\* changes no node (children, hidden list, label, rank and mapping
\* included) and raises nothing, and so does a save_metadata that follows
\* a save_metadata of the same node (children, sentinel comment text and
\* mapping included).
LoadAndSaveIdempotent ==
    [][(/\ last.op \in {"load_metadata", "save_metadata"}
        /\ last'.op = last.op
        /\ last'.n = last.n)
       => /\ err' = "none"
          /\ UNCHANGED nodevars]_vars

\* the type keeps a sentinel comment: it has allowed children or a
\* text-content property
KeepsSentinel(t) == allowed_children(t) # {} \/ has_node_text(t)

\* C17: when save_metadata has returned on a node that had at most one
\* sentinel comment child: with an empty mapping the node has no sentinel
\* comment; with a non-empty mapping and a type that has allowed children
\* or a text-content property it has exactly one, whose text is the
\* prefix, a space and the encoding of the mapping; a node of any other
\* type has gained none.
SentinelAfterSave ==
    [][(/\ last'.op = "save_metadata"
        /\ Cardinality(SentinelsOf(last'.n)) <= 1)
       => /\ Len(metadata'[last'.n].keys) = 0 =>
                 SentinelsIn(W', last'.n) = {}
          /\ (/\ Len(metadata'[last'.n].keys) > 0
              /\ KeepsSentinel(type'[last'.n])) =>
                 /\ Cardinality(SentinelsIn(W', last'.n)) = 1
                 /\ \A k \in SentinelsIn(W', last'.n) :
                        text'[k] = meta_text(metadata'[last'.n])
          /\ ~KeepsSentinel(type'[last'.n]) =>
                 Cardinality(SentinelsIn(W', last'.n))
                     <= Cardinality(SentinelsOf(last'.n))]_vars

HiddenKids(n) ==
    {i \in 1..Len(children[n]) : is_hidden[children[n][i]]}

\* C18: when save_metadata has returned, the mapping of the node has a
\* label entry exactly when its label is neither the default name of its
\* type nor the label derived from its name property, a rank entry exactly
\* when its rank is not the zero string, and a snapshot entry exactly when
\* it has a child whose is_hidden is true, one snapshot per such child.
MappingAfterSave ==
    (last.op = "save_metadata" /\ err = "none") =>
        /\ Has(metadata[last.n], "name") <=>
               /\ label[last.n] # name(type[last.n])
               /\ label[last.n] # update_item_name(W, last.n)
        /\ Has(metadata[last.n], "user_sort") <=>
               user_sort_order[last.n] # ZERO_RANK
        /\ Has(metadata[last.n], "hidden_nodes") <=>
               HiddenKids(last.n) # {}
        /\ Len(metadata[last.n].hidden_nodes)
               = Cardinality(HiddenKids(last.n))

\* C19: when add_child has taken the node, the node is the last child of
\* the parent, and the children the parent had before are the children in
\* front of it, in the order they were in and each as it was.
AddChildAppendsLast ==
    [][(last'.op \in {"add_child", "new_child"} /\ last'.ok /\ err' = "none")
           => /\ Len(children'[last'.n]) = Len(children[last'.n]) + 1
              /\ type'[children'[last'.n][Len(children'[last'.n])]] = last'.t
              /\ SubSeq(KidTrees(W', last'.n), 1, Len(children[last'.n]))
                     = KidTrees(W, last'.n)]_vars

\* the texts of the sentinel comments of p
SentinelTexts(w, p) == {w.text[k] : k \in SentinelsIn(w, p)}

\* C20: when write_attribs has returned on a node whose is_hidden flag is
\* true, a sentinel comment of its parent holds the escaped serialization
\* of the node as it is now; when it has returned on a node that is not
\* hidden, the metadata mapping and the sentinel comments of the parent are
\* what they were before.
SnapshotStaysCurrent ==
    /\ []((last.op = "write_attribs" /\ err = "none" /\ is_hidden[last.n])
             => /\ parent[last.n] # 0
                /\ Persisted(parent[last.n], SnapshotOf(last.n)))
    /\ [][(/\ last'.op = "write_attribs" /\ err' = "none"
           /\ ~is_hidden'[last'.n] /\ parent'[last'.n] # 0)
          => /\ metadata'[parent'[last'.n]] = metadata[parent'[last'.n]]
             /\ SentinelTexts(W', parent'[last'.n])
                    = SentinelTexts(W, parent'[last'.n])]_vars

\* what a node is apart from its place: type, text and number of children
Desc(w, x) == <<w.type[x], w.text[x], Len(w.children[x])>>

\* the children of x in their order, each by what it is
KidDescs(w, x) == [i \in 1..Len(w.children[x]) |-> Desc(w, w.children[x][i])]

\* the nodes of the set S of world w that are like node x of world v
Alike(w, S, v, x) == Cardinality({y \in S : Desc(w, y) = Desc(v, x)})

\* C21: when n.sort() has returned, every node of the document outside the
\* subtree of n has the children sequence it had before, and the subtree of
\* n holds the nodes it held before, each as often as before.
SortStaysInSubtree ==
    [][(last'.op = "sort" /\ err' = "none")
           => /\ \A x \in DocNodes \ Subtree(W, last'.n) :
                     KidDescs(W', x) = KidDescs(W, x)
              /\ Subtree(W', last'.n) = Subtree(W, last'.n)
              /\ \A x \in Subtree(W, last'.n) :
                     Alike(W', Subtree(W', last'.n), W, x)
                         = Alike(W, Subtree(W, last'.n), W, x)]_vars

\* the hidden list of p holds the children of p whose is_hidden flag is
\* true, each once, and nothing else
HiddenListOf(p) ==
    /\ \A c \in Range(hidden_children[p]) :
           /\ InSeq(c, children[p])
           /\ is_hidden[c]
           /\ Occurrences(hidden_children[p], c) = 1
    /\ \A c \in Range(children[p]) :
           is_hidden[c] => InSeq(c, hidden_children[p])

\* C22: in every state, the hidden list of every element holds exactly its
\* children whose is_hidden flag is true, each once, and set_hidden(False)
\* on a node that has a parent has raised nothing.
HiddenListIsExact ==
    /\ \A p \in DocElements : HiddenListOf(p)
    /\ (last.op = "unhide" /\ parent[last.n] # 0) => err = "none"

====
